---- MODULE Spec2Model ----
(***************************************************************************)
(* Fleet lead scoring engine (scripts/fleet_lead_scorer.py).               *)
(*                                                                         *)
(* Units.  Latitudes and longitudes are integers in 1e-4 degree (41.8819   *)
(* degrees is 418819).  Distances are integers in tenths of a mile,        *)
(* rounded down, so "distance < 20 miles" is "tenths < 200".  Population   *)
(* densities are integers.  A zip code is a sequence of one-character      *)
(* strings.  Optional values are sequences: <<>> is None, <<v>> is v.      *)
(***************************************************************************)
EXTENDS Integers, Sequences, FiniteSets, TLC

VARIABLES search, pc, arg, served, appended, ret

vars == <<search, pc, arg, served, appended, ret>>

None == <<>>

Some(v) == <<v>>

\* ------------------------------------------------------------------------
\* Static data: heuristic lookup tables
\* ------------------------------------------------------------------------

SALT_BELT_STATES ==
    { "CT", "DC", "DE", "IL", "IN", "IA", "KY", "ME", "MD", "MA",
      "MI", "MN", "MO", "NH", "NJ", "NY", "OH", "PA", "RI", "VT",
      "VA", "WV", "WI" }

COASTAL_STATES ==
    { "CA", "OR", "WA", "TX", "LA", "MS", "AL", "FL", "GA", "SC",
      "NC", "VA", "MD", "DE", "NJ", "NY", "CT", "RI", "MA", "NH", "ME" }

MOUNTAINOUS_STATES ==
    { "CO", "WV", "UT", "NV", "ID", "MT", "WA", "OR", "CA", "AZ", "NM", "WY" }

HEAT_RISK_LATITUDE == 35 * 10000

COLD_RISK_LATITUDE == 42 * 10000

state_elevations ==
    [ CO |-> 5500, UT |-> 4500, WY |-> 5500, NM |-> 5000, NV |-> 4000,
      AZ |-> 3500, ID |-> 4000, MT |-> 3500, WA |-> 1500, OR |-> 1500,
      CA |-> 1000, WV |-> 1500 ]

COASTAL_REFERENCE_POINTS ==
    << <<340522, -1182437>>,
       <<327157, -1171611>>,
       <<377749, -1224194>>,
       <<476062, -1223321>>,
       <<455152, -1226784>>,
       <<257617, -801918>>,
       <<279506, -824572>>,
       <<297604, -953698>>,
       <<299511, -900715>>,
       <<407128, -740060>>,
       <<423601, -710589>>,
       <<392904, -766122>> >>

HIGH_ELEVATION_PREFIXES ==
    (<<"8", "0", "0">> :> 5280) @@
    (<<"8", "0", "1">> :> 5500) @@
    (<<"8", "0", "2">> :> 6000) @@
    (<<"8", "0", "3">> :> 7000) @@
    (<<"8", "0", "4">> :> 8000) @@
    (<<"8", "0", "5">> :> 5500) @@
    (<<"8", "4", "0">> :> 4300) @@
    (<<"8", "4", "1">> :> 4500) @@
    (<<"8", "7", "1">> :> 5300) @@
    (<<"8", "7", "2">> :> 6000) @@
    (<<"8", "9", "1">> :> 4500) @@
    (<<"5", "9", "0">> :> 3500) @@
    (<<"5", "9", "1">> :> 4000) @@
    (<<"8", "2", "0">> :> 6000) @@
    (<<"8", "2", "1">> :> 6500) @@
    (<<"8", "2", "2">> :> 7000) @@
    (<<"8", "3", "1">> :> 4500) @@
    (<<"8", "3", "2">> :> 5000) @@
    (<<"8", "3", "3">> :> 5500)

MOCK_ZIP_DATA ==
    (<<"6", "0", "6", "0", "1">> :> [city |-> "Chicago", state |-> "IL", lat |-> 418819, lon |-> -876278, pop_density |-> 12000]) @@
    (<<"1", "0", "0", "0", "1">> :> [city |-> "New York", state |-> "NY", lat |-> 407484, lon |-> -739967, pop_density |-> 27000]) @@
    (<<"9", "0", "2", "1", "0">> :> [city |-> "Beverly Hills", state |-> "CA", lat |-> 340901, lon |-> -1184065, pop_density |-> 5200]) @@
    (<<"8", "0", "2", "0", "2">> :> [city |-> "Denver", state |-> "CO", lat |-> 397541, lon |-> -1049927, pop_density |-> 4500]) @@
    (<<"9", "8", "1", "0", "1">> :> [city |-> "Seattle", state |-> "WA", lat |-> 476097, lon |-> -1223331, pop_density |-> 8500]) @@
    (<<"3", "3", "1", "0", "1">> :> [city |-> "Miami", state |-> "FL", lat |-> 257617, lon |-> -801918, pop_density |-> 11000]) @@
    (<<"4", "8", "2", "0", "1">> :> [city |-> "Detroit", state |-> "MI", lat |-> 423314, lon |-> -830458, pop_density |-> 5000]) @@
    (<<"0", "2", "1", "0", "1">> :> [city |-> "Boston", state |-> "MA", lat |-> 423601, lon |-> -710589, pop_density |-> 13000]) @@
    (<<"7", "5", "2", "0", "1">> :> [city |-> "Dallas", state |-> "TX", lat |-> 327767, lon |-> -967970, pop_density |-> 3500]) @@
    (<<"8", "5", "0", "0", "1">> :> [city |-> "Phoenix", state |-> "AZ", lat |-> 334484, lon |-> -1120740, pop_density |-> 3000]) @@
    (<<"5", "5", "4", "0", "1">> :> [city |-> "Minneapolis", state |-> "MN", lat |-> 449778, lon |-> -932650, pop_density |-> 7000]) @@
    (<<"8", "4", "1", "0", "1">> :> [city |-> "Salt Lake City", state |-> "UT", lat |-> 407608, lon |-> -1118910, pop_density |-> 3200]) @@
    (<<"1", "5", "2", "0", "1">> :> [city |-> "Pittsburgh", state |-> "PA", lat |-> 404406, lon |-> -799959, pop_density |-> 5500]) @@
    (<<"4", "4", "1", "0", "1">> :> [city |-> "Cleveland", state |-> "OH", lat |-> 414993, lon |-> -816944, pop_density |-> 4800]) @@
    (<<"1", "4", "2", "0", "1">> :> [city |-> "Buffalo", state |-> "NY", lat |-> 428864, lon |-> -788784, pop_density |-> 6500])

HaversineTenths ==
    (<<418819, -876278>> :> <<17425, 17318, 18549, 17330, 17546, 11916, 10056, 9422, 8355, 7109, 8484, 6046>>) @@
    (<<407484, -739967>> :> <<24460, 24283, 25658, 24013, 24388, 10948, 10062, 14191, 11702, 25, 1883, 1711>>) @@
    (<<340901, -1184065>> :> <<96, 1190, 3393, 9558, 8210, 23452, 21591, 13805, 16789, 24531, 25981, 23226>>) @@
    (<<397541, -1049927>> :> <<8302, 8332, 9472, 10188, 9804, 17259, 15220, 8793, 10812, 16274, 17654, 15066>>) @@
    (<<476097, -1223331>> :> <<9605, 10641, 6795, 2, 1456, 27318, 25263, 18895, 20991, 24020, 24856, 23283>>) @@
    (<<257617, -801918>> :> <<23357, 22683, 25911, 27317, 27054, 0, 2058, 9674, 6690, 10924, 12585, 9575>>) @@
    (<<423314, -830458>> :> <<19794, 19684, 20872, 19333, 19645, 11563, 9942, 11058, 9401, 4805, 6116, 3965>>) @@
    (<<423601, -710589>> :> <<25910, 25788, 26929, 24856, 25331, 12585, 11832, 16040, 13583, 1902, 0, 3594>>) @@
    (<<327767, -967970>> :> <<12378, 11816, 14809, 16798, 16313, 11102, 9166, 2248, 4421, 13706, 15492, 12110>>) @@
    (<<334484, -1120740>> :> <<3568, 2988, 6529, 11145, 10055, 19789, 17937, 10142, 13132, 21399, 22953, 20005>>) @@
    (<<449778, -932650>> :> <<15215, 15308, 15814, 13913, 14233, 15139, 13181, 10577, 10527, 10164, 11208, 9371>>) @@
    (<<407608, -1118910>> :> <<5796, 6275, 5993, 6998, 6346, 20876, 18852, 11991, 14326, 19677, 20936, 18568>>) @@
    (<<404406, -799959>> :> <<21322, 21133, 22602, 21327, 21600, 10143, 8743, 11371, 9200, 3148, 4815, 1962>>) @@
    (<<414993, -816944>> :> <<20449, 20303, 21621, 20206, 20499, 10908, 9371, 11142, 9249, 4038, 5495, 3078>>) @@
    (<<428864, -788784>> :> <<21934, 21835, 22945, 21106, 21502, 11856, 10512, 12859, 10869, 2924, 3990, 2750>>) @@
    (<<300000, -953698>> :> <<13658, 12970, 16349, 18770, 18222, 9712, 7928, 165, 3171, 14075, 15935, 12408>>) @@
    (<<345000, -1182437>> :> <<309, 1381, 3247, 9299, 7961, 23379, 21507, 13746, 16708, 24332, 25770, 23037>>) @@
    (<<350000, -1060000>> :> <<6996, 6591, 9319, 12106, 11367, 16593, 14661, 7176, 9904, 17790, 19372, 16380>>) @@
    (<<420000, -710589>> :> <<25925, 25792, 26978, 24968, 25430, 12364, 11633, 15937, 13450, 1768, 248, 3460>>) @@
    (<<450000, -930000>> :> <<15341, 15432, 15944, 14031, 14357, 15081, 13129, 10608, 10519, 10039, 11079, 9253>>) @@
    (<<476062, -1223321>> :> <<9602, 10638, 6793, 0, 1454, 27317, 25262, 18893, 20989, 24020, 24856, 23283>>) @@
    (<<0, 0>> :> <<78138, 77794, 79511, 76792, 77548, 56089, 57586, 65407, 62230, 53857, 52598, 55054>>) @@
    (<<389072, -770369>> :> <<22942, 22699, 24350, 23217, 23474, 9266, 8186, 12186, 9650, 2035, 3937, 349>>)
\* ------------------------------------------------------------------------
\* Helper functions
\* ------------------------------------------------------------------------

Min(a, b) == IF a <= b THEN a ELSE b

Max(a, b) == IF a >= b THEN a ELSE b

\* haversine_distance, in tenths of a mile rounded down.  The trigonometric
\* formula is tabulated in HaversineTenths for the coordinates the model uses:
\* row <<lat1, lon1>>, column the position of <<lat2, lon2>> in
\* COASTAL_REFERENCE_POINTS.
haversine_distance(lat1, lon1, lat2, lon2) ==
    LET k == CHOOSE i \in 1..Len(COASTAL_REFERENCE_POINTS) :
                 COASTAL_REFERENCE_POINTS[i] = <<lat2, lon2>>
    IN  HaversineTenths[<<lat1, lon1>>][k]

RECURSIVE NearestFrom(_, _, _, _)
NearestFrom(lat, lon, k, min_distance) ==
    IF k > Len(COASTAL_REFERENCE_POINTS) THEN min_distance
    ELSE LET dist == haversine_distance(lat, lon, COASTAL_REFERENCE_POINTS[k][1],
                                        COASTAL_REFERENCE_POINTS[k][2])
         IN  NearestFrom(lat, lon, k + 1,
                         IF min_distance = None THEN Some(dist)
                         ELSE Some(Min(min_distance[1], dist)))

\* min_distance starts at float('inf'), here None, and the loop runs over the
\* twelve reference points, so the result is always a number.
get_nearest_coast_distance(lat, lon) == NearestFrom(lat, lon, 1, None)[1]

\* zip_code[:3]
Prefix3(zip_code) == SubSeq(zip_code, 1, Min(3, Len(zip_code)))

get_elevation_estimate(zip_code, state) ==
    LET prefix == Prefix3(zip_code)
    IN  IF prefix \in DOMAIN HIGH_ELEVATION_PREFIXES
        THEN HIGH_ELEVATION_PREFIXES[prefix]
        ELSE IF state \in DOMAIN state_elevations
             THEN state_elevations[state]
             ELSE 500

\* str.strip(): leading and trailing whitespace removed
Whitespace == { " ", "\t", "\n", "\r" }

RECURSIVE lstrip(_)
lstrip(s) ==
    IF s # <<>> /\ Head(s) \in Whitespace THEN lstrip(Tail(s)) ELSE s

RECURSIVE rstrip(_)
rstrip(s) ==
    IF s # <<>> /\ s[Len(s)] \in Whitespace
    THEN rstrip(SubSeq(s, 1, Len(s) - 1)) ELSE s

strip(s) == rstrip(lstrip(s))

\* "x or default" on an optional string / an optional number
OrStr(x, default) == IF x = None \/ x = Some("") THEN default ELSE x[1]

OrNum(x, default) == IF x = None \/ x = Some(0) THEN default ELSE x[1]

Reverse(s) == [i \in 1..Len(s) |-> s[Len(s) + 1 - i]]

\* list.sort(key=...) first computes the key of every element; Keyed pairs
\* are <<key, element>>.
\* Stable ascending insertion of x: after every element whose key is not
\* larger.
RECURSIVE InsertAsc(_, _)
InsertAsc(sorted, x) ==
    IF sorted = <<>> THEN <<x>>
    ELSE IF Head(sorted)[1] <= x[1]
         THEN <<Head(sorted)>> \o InsertAsc(Tail(sorted), x)
         ELSE <<x>> \o sorted

RECURSIVE SortAsc(_)
SortAsc(s) ==
    IF s = <<>> THEN <<>>
    ELSE InsertAsc(SortAsc(SubSeq(s, 1, Len(s) - 1)), s[Len(s)])

\* list.sort(key=..., reverse=True) on keyed pairs: the list is reversed,
\* sorted stably in ascending key order and reversed again, so equal keys keep
\* their original order.
SortReverse(s) == Reverse(SortAsc(Reverse(s)))

\* ------------------------------------------------------------------------
\* Core scoring engine (class FleetLeadScorer)
\* ------------------------------------------------------------------------

\* get_zip_data giving up (None) when the lookup raises, without trying the
\* fallback table
get_zip_data_raise_is_none(self_search, zip_code, response) ==
    IF self_search /\ response.kind = "raise" THEN None
    ELSE IF self_search /\ response.kind = "result" /\ response.zipcode # None
            /\ response.zipcode # Some(<<>>)
    THEN Some([ city |-> OrStr(response.major_city,
                               OrStr(response.post_office_city, "Unknown")),
                state |-> OrStr(response.state, "Unknown"),
                lat |-> OrNum(response.lat, 0),
                lon |-> OrNum(response.lng, 0),
                pop_density |-> OrNum(response.population_density, 0) ])
    ELSE IF zip_code \in DOMAIN MOCK_ZIP_DATA
         THEN Some(MOCK_ZIP_DATA[zip_code])
         ELSE None

\* self.search.by_zipcode(zip_code) is the external lookup service.  Its
\* answer is one of: an exception (kind "raise"), a falsy result (kind
\* "none"), or a result object whose fields may each be None.
get_zip_data(self_search, zip_code, response) ==
    IF self_search /\ response.kind = "result" /\ response.zipcode # None
       /\ response.zipcode # Some(<<>>)
    THEN Some([ city |-> OrStr(response.major_city,
                               OrStr(response.post_office_city, "Unknown")),
                state |-> OrStr(response.state, "Unknown"),
                lat |-> OrNum(response.lat, 0),
                lon |-> OrNum(response.lng, 0),
                pop_density |-> OrNum(response.population_density, 0) ])
    ELSE IF zip_code \in DOMAIN MOCK_ZIP_DATA
         THEN Some(MOCK_ZIP_DATA[zip_code])
         ELSE None

\* calculate_corrosion_score with the coastal score not gated on the state
calculate_corrosion_score_ungated(state, lat, lon) ==
    LET salt_score == IF state \in SALT_BELT_STATES THEN 30 ELSE 0
        distance_to_coast == get_nearest_coast_distance(lat, lon)
        coastal_score ==
            IF distance_to_coast < 20 * 10 THEN 15
            ELSE IF distance_to_coast < 50 * 10 THEN 8
            ELSE 0
    IN  <<salt_score, coastal_score>>

calculate_corrosion_score(state, lat, lon) ==
    LET salt_score == IF state \in SALT_BELT_STATES THEN 30 ELSE 0
        distance_to_coast == get_nearest_coast_distance(lat, lon)
        coastal_score ==
            IF state \in COASTAL_STATES
            THEN IF distance_to_coast < 20 * 10 THEN 15
                 ELSE IF distance_to_coast < 50 * 10 THEN 8
                 ELSE 0
            ELSE 0
    IN  <<salt_score, coastal_score>>

calculate_density_score(pop_density) ==
    IF pop_density > 10000 THEN <<30, 0>>
    ELSE IF pop_density > 5000 THEN <<25, 0>>
    ELSE IF pop_density > 2000 THEN <<15, 0>>
    ELSE IF pop_density < 500 THEN <<0, 10>>
    ELSE IF pop_density < 100 THEN <<0, 15>>
    ELSE <<0, 0>>

\* calculate_terrain_score with the high-alpine score mistyped as 35
calculate_terrain_score_alpine35(zip_code, state) ==
    IF state \notin MOUNTAINOUS_STATES THEN 0
    ELSE LET elevation == get_elevation_estimate(zip_code, state)
         IN  IF elevation > 7000 THEN 35
             ELSE IF elevation > 5000 THEN 20
             ELSE IF elevation > 3000 THEN 12
             ELSE IF elevation > 2000 THEN 8
             ELSE 0

\* calculate_terrain_score with inclusive comparisons
calculate_terrain_score_inclusive(zip_code, state) ==
    IF state \notin MOUNTAINOUS_STATES THEN 0
    ELSE LET elevation == get_elevation_estimate(zip_code, state)
         IN  IF elevation >= 7000 THEN 25
             ELSE IF elevation >= 5000 THEN 20
             ELSE IF elevation >= 3000 THEN 12
             ELSE IF elevation >= 2000 THEN 8
             ELSE 0

calculate_terrain_score(zip_code, state) ==
    IF state \notin MOUNTAINOUS_STATES THEN 0
    ELSE LET elevation == get_elevation_estimate(zip_code, state)
         IN  IF elevation > 7000 THEN 25
             ELSE IF elevation > 5000 THEN 20
             ELSE IF elevation > 3000 THEN 12
             ELSE IF elevation > 2000 THEN 8
             ELSE 0

calculate_thermal_score(lat) ==
    LET heat_score == IF lat < 30 * 10000 THEN 20
                      ELSE IF lat < HEAT_RISK_LATITUDE THEN 12
                      ELSE 0
        cold_score == IF lat > 45 * 10000 THEN 20
                      ELSE IF lat > COLD_RISK_LATITUDE THEN 12
                      ELSE 0
    IN  <<heat_score, cold_score>>

\* determine_risk_bucket with the urban group tested before corrosion and
\* terrain
determine_risk_bucket_urban_first(factors) ==
    LET corrosion_total == factors.corrosion + factors.coastal
        urban_total == factors.urban_wear
        terrain_total == factors.terrain
        thermal_total == factors.heat + factors.cold
        max_score == Max(Max(corrosion_total, urban_total),
                         Max(terrain_total, thermal_total))
    IN  IF max_score = urban_total /\ urban_total >= 20
        THEN "city_grinder"
        ELSE IF max_score = corrosion_total /\ corrosion_total >= 25
        THEN "salt_belt"
        ELSE IF max_score = terrain_total /\ terrain_total >= 15
        THEN "transmission_cooker"
        ELSE IF max_score = thermal_total /\ thermal_total >= 15
        THEN "thermal_stress"
        ELSE "general"

\* determine_risk_bucket with the thermal floor mistyped as 25
determine_risk_bucket_thermal_floor25(factors) ==
    LET corrosion_total == factors.corrosion + factors.coastal
        urban_total == factors.urban_wear
        terrain_total == factors.terrain
        thermal_total == factors.heat + factors.cold
        max_score == Max(Max(corrosion_total, urban_total),
                         Max(terrain_total, thermal_total))
    IN  IF max_score = corrosion_total /\ corrosion_total >= 25
        THEN "salt_belt"
        ELSE IF max_score = terrain_total /\ terrain_total >= 15
        THEN "transmission_cooker"
        ELSE IF max_score = urban_total /\ urban_total >= 20
        THEN "city_grinder"
        ELSE IF max_score = thermal_total /\ thermal_total >= 25
        THEN "thermal_stress"
        ELSE "general"

determine_risk_bucket(factors) ==
    LET corrosion_total == factors.corrosion + factors.coastal
        urban_total == factors.urban_wear
        terrain_total == factors.terrain
        thermal_total == factors.heat + factors.cold
        max_score == Max(Max(corrosion_total, urban_total),
                         Max(terrain_total, thermal_total))
    IN  IF max_score = corrosion_total /\ corrosion_total >= 25
        THEN "salt_belt"
        ELSE IF max_score = terrain_total /\ terrain_total >= 15
        THEN "transmission_cooker"
        ELSE IF max_score = urban_total /\ urban_total >= 20
        THEN "city_grinder"
        ELSE IF max_score = thermal_total /\ thermal_total >= 15
        THEN "thermal_stress"
        ELSE "general"

\* The dedupe loop: seen is the set of items already appended to unique.
RECURSIVE Dedupe(_, _, _)
Dedupe(upsells, seen, unique) ==
    IF upsells = <<>> THEN unique
    ELSE LET item == Head(upsells)
         IN  IF item \notin seen
             THEN Dedupe(Tail(upsells), seen \cup {item}, Append(unique, item))
             ELSE Dedupe(Tail(upsells), seen, unique)

\* The item lists of the seven upsell rules, in rule order
upsell_items ==
    << <<"Undercoating", "Brake Line Inspection", "Caliper Check">>,
       <<"Rust Proofing", "Marine Grade Lubricants">>,
       <<"Brake Rotors", "Starter System Check", "Door Hinge Lube">>,
       <<"Suspension Inspection", "Alignment Check", "Skid Plate">>,
       <<"Transmission Flush", "Coolant Check", "Brake Fluid Flush">>,
       <<"Battery Load Test", "AC System Check", "Rubber Bushing Inspection">>,
       <<"Block Heater", "Battery Replacement", "Alternator Test">> >>

\* The chain of "if ...: upsells.extend([...])" statements
extend_upsells(factors) ==
    LET u1 == IF factors.corrosion >= 25 THEN upsell_items[1] ELSE <<>>
        u2 == IF factors.coastal >= 10 THEN u1 \o upsell_items[2] ELSE u1
        u3 == IF factors.urban_wear >= 20 THEN u2 \o upsell_items[3] ELSE u2
        u4 == IF factors.rural_road >= 10 THEN u3 \o upsell_items[4] ELSE u3
        u5 == IF factors.terrain >= 15 THEN u4 \o upsell_items[5] ELSE u4
        u6 == IF factors.heat >= 12 THEN u5 \o upsell_items[6] ELSE u5
    IN  IF factors.cold >= 12 THEN u6 \o upsell_items[7] ELSE u6

\* get_recommended_upsells returning every unique item, without the cut at 6
get_recommended_upsells_uncut(factors, bucket) ==
    Dedupe(extend_upsells(factors), {}, <<>>)

get_recommended_upsells(factors, bucket) ==
    LET upsells == extend_upsells(factors)
        unique == Dedupe(upsells, {}, <<>>)
    IN  SubSeq(unique, 1, Min(6, Len(unique)))

\* get_primary_risk with the secondary threshold exclusive (score > 5)
get_primary_risk_above5(factors) ==
    LET risk_scores ==
            SortReverse(<< <<factors.corrosion + factors.coastal, "Corrosion">>,
                           <<factors.urban_wear, "Stop-and-Go Wear">>,
                           <<factors.terrain, "Terrain Stress">>,
                           <<factors.heat, "Heat Stress">>,
                           <<factors.cold, "Cold Start Risk">>,
                           <<factors.rural_road, "Rural Road Wear">> >>)
        primary == IF risk_scores[1][1] > 0 THEN risk_scores[1][2] ELSE "Low Risk"
        picked == SelectSeq(SubSeq(risk_scores, 2, 3), LAMBDA r : r[1] > 5)
        secondary == [i \in 1..Len(picked) |-> picked[i][2]]
    IN  <<primary, secondary>>

get_primary_risk(factors) ==
    LET risk_scores ==
            SortReverse(<< <<factors.corrosion + factors.coastal, "Corrosion">>,
                           <<factors.urban_wear, "Stop-and-Go Wear">>,
                           <<factors.terrain, "Terrain Stress">>,
                           <<factors.heat, "Heat Stress">>,
                           <<factors.cold, "Cold Start Risk">>,
                           <<factors.rural_road, "Rural Road Wear">> >>)
        primary == IF risk_scores[1][1] > 0 THEN risk_scores[1][2] ELSE "Low Risk"
        picked == SelectSeq(SubSeq(risk_scores, 2, 3), LAMBDA r : r[1] >= 5)
        secondary == [i \in 1..Len(picked) |-> picked[i][2]]
    IN  <<primary, secondary>>

\* lead_priority with the hot threshold exclusive
lead_priority_hot_exclusive(total) ==
    IF total > 60 THEN "hot"
    ELSE IF total >= 35 THEN "warm"
    ELSE "cold"

\* Lead priority (the threshold chain at the end of score_zip)
lead_priority(total) ==
    IF total >= 60 THEN "hot"
    ELSE IF total >= 35 THEN "warm"
    ELSE "cold"

\* total_severity without the cap
total_severity_uncapped(corrosion, coastal, urban, rural, terrain, heat, cold) ==
    corrosion + coastal + urban + rural + terrain + heat + cold

\* Total score (capped at 100)
total_severity(corrosion, coastal, urban, rural, terrain, heat, cold) ==
    Min(100, corrosion + coastal + urban + rural + terrain + heat + cold)

score_zip(self_search, zip_code, response) ==
    LET zip_data == get_zip_data(self_search, zip_code, response)
    IN  IF zip_data = None THEN None
        ELSE
        LET d == zip_data[1]
            cc == calculate_corrosion_score(d.state, d.lat, d.lon)
            ur == calculate_density_score(d.pop_density)
            terrain == calculate_terrain_score(zip_code, d.state)
            hc == calculate_thermal_score(d.lat)
            factors == [ corrosion |-> cc[1], coastal |-> cc[2],
                         urban_wear |-> ur[1], rural_road |-> ur[2],
                         terrain |-> terrain, heat |-> hc[1], cold |-> hc[2] ]
            total == total_severity(cc[1], cc[2], ur[1], ur[2], terrain,
                                    hc[1], hc[2])
            bucket == determine_risk_bucket(factors)
            ps == get_primary_risk(factors)
            upsells == get_recommended_upsells(factors, bucket)
            priority == lead_priority(total)
        IN  Some([ zip_code |-> zip_code,
                   city |-> d.city,
                   state |-> d.state,
                   latitude |-> d.lat,
                   longitude |-> d.lon,
                   population_density |-> d.pop_density,
                   total_severity_score |-> total,
                   risk_factors |-> factors,
                   primary_risk |-> ps[1],
                   secondary_risks |-> ps[2],
                   risk_bucket |-> bucket,
                   recommended_upsell |-> upsells,
                   lead_priority |-> priority ])

\* The loop of score_multiple: responses[i] is the lookup service's answer
\* for zip_codes[i].strip().
RECURSIVE ScoreAll(_, _, _)
ScoreAll(self_search, zip_codes, responses) ==
    IF zip_codes = <<>> THEN <<>>
    ELSE LET score == score_zip(self_search, strip(Head(zip_codes)),
                                Head(responses))
         IN  (IF score # None THEN <<score[1]>> ELSE <<>>)
             \o ScoreAll(self_search, Tail(zip_codes), Tail(responses))

\* sort_results as an ascending sort followed by a reversal, which also
\* reverses the records of equal score
sort_results_reversed_ties(results) ==
    LET keyed == [i \in 1..Len(results) |->
                      <<results[i].total_severity_score, results[i]>>]
        sorted == Reverse(SortAsc(keyed))
    IN  [i \in 1..Len(sorted) |-> sorted[i][2]]

\* results.sort(key=lambda x: x.total_severity_score, reverse=True)
sort_results(results) ==
    LET keyed == [i \in 1..Len(results) |->
                      <<results[i].total_severity_score, results[i]>>]
        sorted == SortReverse(keyed)
    IN  [i \in 1..Len(sorted) |-> sorted[i][2]]

score_multiple(self_search, zip_codes, responses) ==
    sort_results(ScoreAll(self_search, zip_codes, responses))

\* ------------------------------------------------------------------------
\* Inputs
\* ------------------------------------------------------------------------

\* Longest zip-code list passed to score_multiple
MaxZips == 3

\* Largest total handed to the lead-priority thresholds
MaxTotal == 110

ZipInputs ==
    { <<"6","0","6","0","1">>, <<"1","0","0","0","1">>, <<"8","0","2","0","2">>,
      <<"8","0","4","0","0">>, <<"8","0","3","0","0">>, <<"8","3","2","0","0">>,
      <<"5","9","0","0","1">>, <<"0","0","0","0","0">>, <<"8","0">>, <<>> }

StateInputs == { "IL", "NY", "CA", "CO", "WV", "TX", "AZ", "NV", "ZZ" }

\* Coordinates a lookup result may carry: one per thermal band and per
\* latitude threshold, at coast distances below 20, between 20 and 50 and
\* above 50 miles.
PointInputs ==
    { <<257617, -801918>>, <<300000, -953698>>, <<345000, -1182437>>,
      <<350000, -1060000>>, <<397541, -1049927>>, <<420000, -710589>>,
      <<423601, -710589>>, <<450000, -930000>>, <<476062, -1223321>>,
      <<389072, -770369>> }

DensityInputs ==
    { 0, 50, 99, 100, 499, 500, 2000, 2001, 5000, 5001, 10000, 10001 }

FactorInputs ==
    [ corrosion : {0, 24, 25, 30}, coastal : {0, 8, 10, 15},
      urban_wear : {0, 15, 20, 25, 30}, rural_road : {0, 9, 10, 15},
      terrain : {0, 8, 12, 15, 20, 25}, heat : {0, 4, 5, 12, 20},
      cold : {0, 5, 12, 20} ]

NoAnswer(kind) ==
    [ kind |-> kind, zipcode |-> None, major_city |-> None,
      post_office_city |-> None, state |-> None, lat |-> None, lng |-> None,
      population_density |-> None ]

\* What by_zipcode(zip_code) may answer
Responses(zip_code) ==
    { NoAnswer("raise"), NoAnswer("none"), NoAnswer("result") }
    \cup { [ kind |-> "result", zipcode |-> Some(zip_code), major_city |-> mc,
             post_office_city |-> poc, state |-> Some(st), lat |-> Some(p[1]),
             lng |-> Some(p[2]), population_density |-> Some(pd) ] :
           mc \in {None, Some("Metro")}, poc \in {None, Some("Post")},
           st \in StateInputs, p \in PointInputs,
           pd \in DensityInputs \ {0} }
    \cup { [ kind |-> "result", zipcode |-> Some(zip_code), major_city |-> None,
             post_office_city |-> None, state |-> None, lat |-> None,
             lng |-> None, population_density |-> None ] }

\* Entries of a score_multiple input list, with surrounding whitespace
RawInputs ==
    { <<"6","0","6","0","1">>, <<" ","8","0","2","0","2">>,
      <<"1","0","0","0","1","\n">>, <<"4","8","2","0","1">>,
      <<"0","0","0","0","0">>, <<" "," ">> }

BatchKinds == { "raise", "none", "metro", "gulf" }

\* The lookup answers used for batches: a failure, or one of two locations
BatchResponse(kind, zip_code) ==
    IF kind = "metro"
    THEN [ kind |-> "result", zipcode |-> Some(zip_code),
           major_city |-> Some("Metro"), post_office_city |-> None,
           state |-> Some("IL"), lat |-> Some(397541), lng |-> Some(-1049927),
           population_density |-> Some(10001) ]
    ELSE IF kind = "gulf"
    THEN [ kind |-> "result", zipcode |-> Some(zip_code),
           major_city |-> None, post_office_city |-> Some("Post"),
           state |-> Some("TX"), lat |-> Some(300000), lng |-> Some(-953698),
           population_density |-> Some(50) ]
    ELSE NoAnswer(kind)

\* ------------------------------------------------------------------------
\* State machine: one call of one operation on a constructed scorer
\* ------------------------------------------------------------------------

\* __init__: self.search is a SearchEngine (TRUE) or None (FALSE)
Init ==
    /\ search \in BOOLEAN
    /\ pc = "idle"
    /\ arg = <<>>
    /\ served = <<>>
    /\ appended = <<>>
    /\ ret = <<>>

ScoreZip ==
    /\ pc = "idle"
    /\ \E zip_code \in ZipInputs :
         \E response \in (IF search THEN Responses(zip_code)
                          ELSE {NoAnswer("not_called")}) :
            /\ arg' = zip_code
            /\ served' = response
            /\ ret' = score_zip(search, zip_code, response)
    /\ pc' = "score_zip"
    /\ UNCHANGED <<search, appended>>

ScoreMultiple ==
    /\ pc = "idle"
    /\ \E n \in 0..MaxZips :
         \E zip_codes \in [1..n -> RawInputs] :
           \E kinds \in [1..n -> IF search THEN BatchKinds ELSE {"not_called"}] :
              LET responses == [i \in 1..n |->
                                   BatchResponse(kinds[i], strip(zip_codes[i]))]
              IN  /\ arg' = zip_codes
                  /\ served' = responses
                  /\ appended' = ScoreAll(search, zip_codes, responses)
                  /\ ret' = sort_results(appended')
    /\ pc' = "score_multiple"
    /\ UNCHANGED search

\* The lead-priority thresholds of score_zip applied to two totals
LeadPriority ==
    /\ pc = "idle"
    /\ \E lower \in 0..MaxTotal, higher \in 0..MaxTotal :
         /\ lower <= higher
         /\ arg' = <<lower, higher>>
         /\ ret' = <<lead_priority(lower), lead_priority(higher)>>
    /\ pc' = "lead_priority"
    /\ UNCHANGED <<search, served, appended>>

Next == ScoreZip \/ ScoreMultiple \/ LeadPriority

Spec == Init /\ [][Next]_vars

\* ------------------------------------------------------------------------
\* The heuristics and classifiers applied on their own
\* ------------------------------------------------------------------------

InitPure ==
    /\ search = FALSE
    /\ pc = "idle"
    /\ arg = <<>>
    /\ served = <<>>
    /\ appended = <<>>
    /\ ret = <<>>

Apply(name, input, output) ==
    /\ pc' = name
    /\ arg' = input
    /\ ret' = output
    /\ UNCHANGED <<search, served, appended>>

CalculateDensityScore ==
    /\ pc = "idle"
    /\ \E pop_density \in DensityInputs :
         Apply("calculate_density_score", pop_density,
               calculate_density_score(pop_density))

GetElevationEstimate ==
    /\ pc = "idle"
    /\ \E zip_code \in ZipInputs, state \in StateInputs \cup {"Unknown"} :
         Apply("get_elevation_estimate", <<zip_code, state>>,
             get_elevation_estimate(zip_code, state))

CalculateTerrainScore ==
    /\ pc = "idle"
    /\ \E zip_code \in ZipInputs, state \in StateInputs \cup {"Unknown"} :
         Apply("calculate_terrain_score", <<zip_code, state>>,
             calculate_terrain_score(zip_code, state))

CalculateCorrosionScore ==
    /\ pc = "idle"
    /\ \E state \in StateInputs \cup {"Unknown"}, point \in PointInputs :
         Apply("calculate_corrosion_score", <<state, point[1], point[2]>>,
               calculate_corrosion_score(state, point[1], point[2]))

DetermineRiskBucket ==
    /\ pc = "idle"
    /\ \E factors \in FactorInputs :
         Apply("determine_risk_bucket", factors, determine_risk_bucket(factors))

GetRecommendedUpsells ==
    /\ pc = "idle"
    /\ \E factors \in FactorInputs :
         Apply("get_recommended_upsells", factors,
             get_recommended_upsells(factors, determine_risk_bucket(factors)))

GetPrimaryRisk ==
    /\ pc = "idle"
    /\ \E factors \in FactorInputs :
         Apply("get_primary_risk", factors, get_primary_risk(factors))

NextPure ==
    \/ CalculateDensityScore
    \/ GetElevationEstimate
    \/ CalculateTerrainScore
    \/ CalculateCorrosionScore
    \/ DetermineRiskBucket
    \/ GetRecommendedUpsells
    \/ GetPrimaryRisk

SpecPure == InitPure /\ [][NextPure]_vars

\* ------------------------------------------------------------------------
\* Properties
\* ------------------------------------------------------------------------

\* The records a call handed back: the one of score_zip, those of
\* score_multiple
Records ==
    IF pc = "score_zip" THEN {ret[i] : i \in DOMAIN ret}
    ELSE IF pc = "score_multiple" THEN {ret[i] : i \in DOMAIN ret}
    ELSE {}

FactorSum(f) ==
    f.corrosion + f.coastal + f.urban_wear + f.rural_road + f.terrain
    + f.heat + f.cold

\* C1: every record returned by score_zip has total_severity_score equal to
\* min(100, sum of the seven sub-scores of its own risk_factors), an integer
\* in 0..100.
C1_TotalIsCappedSum ==
    pc = "score_zip" =>
        \A r \in Records :
            /\ r.total_severity_score \in 0..100
            /\ FactorSum(r.risk_factors) <= 100
                 => r.total_severity_score = FactorSum(r.risk_factors)
            /\ FactorSum(r.risk_factors) > 100 => r.total_severity_score = 100

\* C1 witness: score_zip returned a record whose seven sub-scores add up to
\* more than 100, so the cap acted.
C1_Witness ==
    /\ pc = "score_zip"
    /\ \E r \in Records : FactorSum(r.risk_factors) > 100

\* C2: in every record of score_zip and score_multiple each sub-score is
\* non-negative and at most its documented maximum.
C2_SubScoresBounded ==
    \A r \in Records :
        /\ r.risk_factors.corrosion \in 0..30
        /\ r.risk_factors.coastal \in 0..15
        /\ r.risk_factors.urban_wear \in 0..30
        /\ r.risk_factors.rural_road \in 0..15
        /\ r.risk_factors.terrain \in 0..25
        /\ r.risk_factors.heat \in 0..20
        /\ r.risk_factors.cold \in 0..20

\* C2 witness: a record in which the coastal, urban, terrain and heat
\* sub-scores all sit at their maximum.
C2_Witness ==
    \E r \in Records :
        /\ r.risk_factors.coastal = 15
        /\ r.risk_factors.urban_wear = 30
        /\ r.risk_factors.terrain = 25
        /\ r.risk_factors.heat = 20

\* Position (from 1) that the i-th appended record takes in a stable sort by
\* descending total: after every record with a larger total and after the
\* earlier records with the same total.
StableRank(i) ==
    1 + Cardinality({ j \in DOMAIN appended :
                        \/ appended[j].total_severity_score
                             > appended[i].total_severity_score
                        \/ /\ appended[j].total_severity_score
                                = appended[i].total_severity_score
                           /\ j < i })

\* C3: score_multiple returns the scored records (kept in input order in
\* appended) with total_severity_score non-increasing, and records of equal
\* total in their input order.
C3_SortedStable ==
    pc = "score_multiple" =>
        /\ Len(ret) = Len(appended)
        /\ \A k \in 1..(Len(ret) - 1) :
               ret[k].total_severity_score >= ret[k + 1].total_severity_score
        /\ \A i \in DOMAIN appended : ret[StableRank(i)] = appended[i]

\* C3 witness: a batch of three records where two different records tie and
\* the sort had to move a record.
C3_Witness ==
    /\ pc = "score_multiple"
    /\ Len(ret) = 3
    /\ ret # appended
    /\ \E i, j \in DOMAIN appended :
          /\ i < j
          /\ appended[i].total_severity_score = appended[j].total_severity_score
          /\ appended[i] # appended[j]

\* A code resolves when the lookup service is present and answers with a
\* result carrying a zip code, or the fallback table has the code.
Resolves(zip_code, response) ==
    \/ /\ search
       /\ response.kind = "result"
       /\ response.zipcode \notin {None, Some(<<>>)}
    \/ zip_code \in DOMAIN MOCK_ZIP_DATA

\* Indices of the input entries whose trimmed code resolves, in input order
ResolvedEntries ==
    SelectSeq([i \in DOMAIN arg |-> i],
              LAMBDA i : Resolves(strip(arg[i]), served[i]))

\* C4: score_zip returns None exactly for a code that neither the lookup
\* service (also when it raises) nor the fallback table resolves;
\* score_multiple returns one record per input entry whose trimmed code
\* resolves and none for the others.
C4_UnresolvedSkipped ==
    /\ pc = "score_zip" => (ret = None <=> ~Resolves(arg, served))
    /\ pc = "score_multiple" =>
          /\ Len(ret) = Len(ResolvedEntries)
          /\ Len(appended) = Len(ResolvedEntries)
          /\ \A k \in DOMAIN appended :
                appended[k].zip_code = strip(arg[ResolvedEntries[k]])

\* C4 witness: a batch in which the lookup raised for a code the fallback
\* table resolves, another entry stayed unresolved, and an entry resolved
\* only after trimming.
C4_Witness ==
    /\ pc = "score_multiple"
    /\ Len(arg) = 3
    /\ Len(ret) = 2
    /\ \E i \in DOMAIN arg :
          served[i].kind = "raise" /\ strip(arg[i]) \in DOMAIN MOCK_ZIP_DATA
    /\ \E i \in DOMAIN arg :
          served[i].kind = "raise" /\ strip(arg[i]) \notin DOMAIN MOCK_ZIP_DATA
    /\ \E i \in DOMAIN arg :
          strip(arg[i]) # arg[i] /\ Resolves(strip(arg[i]), served[i])

PriorityRank(p) == IF p = "hot" THEN 2 ELSE IF p = "warm" THEN 1 ELSE 0

ThresholdPriority(total, priority) ==
    /\ priority \in {"hot", "warm", "cold"}
    /\ priority = "hot" <=> total >= 60
    /\ priority = "warm" <=> (35 <= total /\ total <= 59)
    /\ priority = "cold" <=> total <= 34

\* C5: lead_priority depends on the total alone: hot iff total >= 60, warm
\* iff 35 <= total <= 59, cold iff total <= 34; a higher total never gives a
\* lower tier.
C5_PriorityThresholds ==
    /\ \A r \in Records : ThresholdPriority(r.total_severity_score, r.lead_priority)
    /\ pc = "lead_priority" =>
          /\ ThresholdPriority(arg[1], ret[1])
          /\ ThresholdPriority(arg[2], ret[2])
          /\ PriorityRank(ret[1]) <= PriorityRank(ret[2])

\* C5 witness: the thresholds applied to the boundary totals 59 and 60.
C5_Witness ==
    /\ pc = "lead_priority"
    /\ arg = <<59, 60>>
    /\ ret = <<"warm", "hot">>

\* The thresholds of the seven upsell rules, in rule order
RuleTriggered(f) ==
    << f.corrosion >= 25, f.coastal >= 10, f.urban_wear >= 20,
       f.rural_road >= 10, f.terrain >= 15, f.heat >= 12, f.cold >= 12 >>

\* Items of the triggered rules among rules 1..n, concatenated in rule order
RECURSIVE TriggeredItems(_, _)
TriggeredItems(f, n) ==
    IF n = 0 THEN <<>>
    ELSE TriggeredItems(f, n - 1)
         \o (IF RuleTriggered(f)[n] THEN upsell_items[n] ELSE <<>>)

\* Positions of a list that hold the first occurrence of their item
FirstOccurrences(list) ==
    { i \in DOMAIN list : \A j \in 1..(i - 1) : list[j] # list[i] }

\* The k-th smallest member of a set of positions
KthOf(positions, k) ==
    CHOOSE i \in positions : Cardinality({ j \in positions : j < i }) = k - 1

\* C6: get_recommended_upsells returns at most 6 items, none repeated: the
\* first 6 (or fewer) first occurrences of the concatenation, in rule order,
\* of the item lists of the triggered rules; an untriggered rule gives no item.
C6_UpsellsFirstSix ==
    pc = "get_recommended_upsells" =>
        LET cat == TriggeredItems(arg, 7)
            kept == FirstOccurrences(cat)
        IN  /\ Len(ret) <= 6
            /\ \A i, j \in DOMAIN ret : i # j => ret[i] # ret[j]
            /\ Len(ret) = Min(6, Cardinality(kept))
            /\ \A k \in DOMAIN ret : ret[k] = cat[KthOf(kept, k)]
            /\ \A n \in 1..7 :
                  ~RuleTriggered(arg)[n] =>
                      \A k \in DOMAIN ret, m \in DOMAIN upsell_items[n] :
                          ret[k] # upsell_items[n][m]

\* C6 witness: three rules triggered with eight items between them and the
\* urban rule not triggered, so the list was cut to six.
C6_Witness ==
    /\ pc = "get_recommended_upsells"
    /\ arg.corrosion >= 25 /\ arg.coastal >= 10 /\ arg.urban_wear < 20
    /\ arg.rural_road >= 10
    /\ Len(ret) = 6
    /\ ret[4] = "Rust Proofing"
    /\ ret[6] = "Suspension Inspection"

\* Largest member of a non-empty set of integers
SetMax(S) == CHOOSE m \in S : \A x \in S : m >= x

\* C7: determine_risk_bucket picks, in the order corrosion, terrain, urban,
\* thermal, the first grouped total that equals the maximum of the four and
\* meets its floor (25, 15, 20, 15), and "general" when none does.
C7_BucketDominance ==
    pc = "determine_risk_bucket" =>
        LET corrosion_total == arg.corrosion + arg.coastal
            terrain_total == arg.terrain
            urban_total == arg.urban_wear
            thermal_total == arg.heat + arg.cold
            max_score == SetMax({corrosion_total, terrain_total, urban_total,
                                 thermal_total})
        IN  ret = IF corrosion_total = max_score /\ corrosion_total >= 25
                  THEN "salt_belt"
                  ELSE IF terrain_total = max_score /\ terrain_total >= 15
                  THEN "transmission_cooker"
                  ELSE IF urban_total = max_score /\ urban_total >= 20
                  THEN "city_grinder"
                  ELSE IF thermal_total = max_score /\ thermal_total >= 15
                  THEN "thermal_stress"
                  ELSE "general"

\* C7 witness: corrosion 30 and urban_wear 30 tie for the maximum and the
\* bucket is "salt_belt".
C7_Witness ==
    /\ pc = "determine_risk_bucket"
    /\ arg.corrosion = 30 /\ arg.coastal = 0 /\ arg.urban_wear = 30
    /\ arg.terrain < 30 /\ arg.heat + arg.cold < 30
    /\ ret = "salt_belt"

\* The six (score, label) pairs in their listed order
RiskPairs(f) ==
    << <<f.corrosion + f.coastal, "Corrosion">>,
       <<f.urban_wear, "Stop-and-Go Wear">>,
       <<f.terrain, "Terrain Stress">>,
       <<f.heat, "Heat Stress">>,
       <<f.cold, "Cold Start Risk">>,
       <<f.rural_road, "Rural Road Wear">> >>

\* The pair at rank r (from 0) by score descending, ties in listed order
PairAtRank(f, r) ==
    LET p == RiskPairs(f)
        i == CHOOSE i \in DOMAIN p :
                 Cardinality({ j \in DOMAIN p :
                                 \/ p[j][1] > p[i][1]
                                 \/ p[j][1] = p[i][1] /\ j < i }) = r
    IN  p[i]

C9_DensityRanges ==
    pc = "calculate_density_score" =>
        /\ ret[1] = IF arg > 10000 THEN 30
                    ELSE IF arg > 5000 THEN 25
                    ELSE IF arg > 2000 THEN 15
                    ELSE 0
        /\ ret[2] = IF arg < 100 THEN 15
                    ELSE IF arg < 500 THEN 10
                    ELSE 0
        /\ ~(ret[1] # 0 /\ ret[2] # 0)

\* The first three characters of the zip code are a key of the prefix table
HasPrefixKey(zip_code) ==
    /\ Len(zip_code) >= 3
    /\ <<zip_code[1], zip_code[2], zip_code[3]>> \in DOMAIN HIGH_ELEVATION_PREFIXES

ExpectedElevation(zip_code, state) ==
    IF HasPrefixKey(zip_code)
    THEN HIGH_ELEVATION_PREFIXES[<<zip_code[1], zip_code[2], zip_code[3]>>]
    ELSE IF state \in DOMAIN state_elevations THEN state_elevations[state]
    ELSE 500

\* C10: calculate_terrain_score is 0 outside the mountainous states; inside,
\* the elevation comes from the prefix table, else the state default table,
\* else 500 feet (also for zip codes shorter than 3 characters), and maps
\* > 7000 to 25, > 5000 to 20, > 3000 to 12, > 2000 to 8, else 0, strictly.
C10_TerrainMapping ==
    /\ pc = "get_elevation_estimate" =>
          ret = ExpectedElevation(arg[1], arg[2])
    /\ pc = "calculate_terrain_score" =>
          LET e == ExpectedElevation(arg[1], arg[2])
          IN  ret = IF arg[2] \notin MOUNTAINOUS_STATES THEN 0
                    ELSE IF e > 7000 THEN 25
                    ELSE IF e > 5000 THEN 20
                    ELSE IF e > 3000 THEN 12
                    ELSE IF e > 2000 THEN 8
                    ELSE 0

\* C10 witness: a Colorado zip code with prefix 803 (elevation exactly 7000)
\* scored 20.
C10_Witness ==
    /\ pc = "calculate_terrain_score"
    /\ arg = << <<"8","0","3","0","0">>, "CO" >>
    /\ ret = 20

\* Smallest member of a non-empty set of integers
SetMin(S) == CHOOSE m \in S : \A x \in S : m <= x

\* Distance, in tenths of a mile, from a coordinate to the closest of the
\* coastal reference points
NearestCoastTenths(lat, lon) ==
    SetMin({ HaversineTenths[<<lat, lon>>][k] :
               k \in 1..Len(COASTAL_REFERENCE_POINTS) })

\* C11: calculate_corrosion_score returns corrosion 30 exactly for salt-belt
\* states, whatever the coordinates; coastal is 0 outside the coastal states
\* even within 20 miles of a coast, and inside them 15 below 20 miles, 8 from
\* 20 to below 50 miles and 0 from 50 miles on.
C11_CorrosionAndCoastal ==
    pc = "calculate_corrosion_score" =>
        LET state == arg[1]
            dist == NearestCoastTenths(arg[2], arg[3])
        IN  /\ ret[1] = 30 <=> state \in SALT_BELT_STATES
            /\ ret[1] \in {0, 30}
            /\ state \notin COASTAL_STATES => ret[2] = 0
            /\ state \in COASTAL_STATES =>
                  /\ dist < 200 => ret[2] = 15
                  /\ (dist >= 200 /\ dist < 500) => ret[2] = 8
                  /\ dist >= 500 => ret[2] = 0

\* C11 witness: a salt-belt state outside the coastal set, at a coordinate
\* less than 20 miles from a coastal reference point, scored (30, 0).
C11_Witness ==
    /\ pc = "calculate_corrosion_score"
    /\ arg[1] \in SALT_BELT_STATES \ COASTAL_STATES
    /\ NearestCoastTenths(arg[2], arg[3]) < 200
    /\ ret = <<30, 0>>

\* The RiskFactors values the four heuristics can produce
Producible(f) ==
    /\ f.corrosion \in {0, 30}
    /\ f.coastal \in {0, 8, 15}
    /\ f.urban_wear \in {0, 15, 25, 30}
    /\ f.terrain \in {0, 8, 12, 20, 25}
    /\ f.heat \in {0, 12, 20}
    /\ f.cold \in {0, 12, 20}
    /\ ~(f.heat # 0 /\ f.cold # 0)

\* C12: for producible RiskFactors the bucket is "general" if and only if no
\* grouped total meets its own floor (corrosion + coastal < 25, terrain < 15,
\* urban_wear < 20 and heat + cold < 15).
C12_GeneralIffNoGroupQualifies ==
    (pc = "determine_risk_bucket" /\ Producible(arg)) =>
        (ret = "general" <=>
            /\ arg.corrosion + arg.coastal < 25
            /\ arg.terrain < 15
            /\ arg.urban_wear < 20
            /\ arg.heat + arg.cold < 15)

\* C12 witness: producible factors with every group non-zero and below its
\* floor (15, 12, 15, 12) were put in "general".
C12_Witness ==
    /\ pc = "determine_risk_bucket"
    /\ Producible(arg)
    /\ arg.corrosion = 0 /\ arg.coastal = 15 /\ arg.terrain = 12
    /\ arg.urban_wear = 15 /\ arg.heat = 12 /\ arg.cold = 0
    /\ ret = "general"

====
